---- MODULE Spec2Model ----
(***************************************************************************)
(* The wormhole engine of src/src/wormhole-engine.ts: a corpus of code     *)
(* souls (souls, a Map in insertion order) and, per soul identifier, the   *)
(* list of connections found when that soul was added (connections).       *)
(*                                                                         *)
(* Numbers.  A JavaScript number is modelled in fixed point: the integer   *)
(* n stands for n / Scale.  The two fields that can leave the finite       *)
(* numbers (energy, resonance) are records [k, v] with k one of "num",     *)
(* "inf", "NaN" and v the fixed-point value of a "num".                    *)
(***************************************************************************)
EXTENDS Integers, Sequences, FiniteSets, TLC

VARIABLES souls, connections, clock, result, collided

vars == <<souls, connections, clock, result, collided>>

\* Bounds of the model.
MaxInserts == 3
MaxK == 2

\* Fixed-point unit: n stands for n / Scale.
Scale == 10 * 10 * 10

\* private dimensionality: number = 10
dimensionality == 10

\* harmonicResonance: const baseFreq = 432
baseFreq == 432

\* wormholeStability: const k = 10 (steepness)
steepness == 10

\* wormholeStability: const x0 = 0.8 (midpoint)
x0 == (8 * Scale) \div 10

\* findWormholes: the admission cutoff 0.7
admission == (7 * Scale) \div 10

\* harmonicResonance: const harmonicRatios = [1, 2, 0.5, 1.5, 0.667, 1.333]
harmonicRatios == <<Scale, 2 * Scale, Scale \div 2, (3 * Scale) \div 2,
                    (667 * Scale) \div 1000, (1333 * Scale) \div 1000>>

---------------------------------------------------------------------------
(* Numbers *)

Num(v) == [k |-> "num", v |-> v]
NaN == [k |-> "NaN", v |-> 0]
Infinity == [k |-> "inf", v |-> 0]

Min(a, b) == IF a < b THEN a ELSE b
Max(a, b) == IF a > b THEN a ELSE b

\* a / b for b > 0, rounded to the nearest unit.
DivR(a, b) ==
  IF a >= 0 THEN (2 * a + b) \div (2 * b) ELSE -((2 * (-a) + b) \div (2 * b))

\* One binary digit more: s is twice the root of n \div 4, rounded down.
IsqrtStep(s, n) == IF (s + 1) * (s + 1) > n THEN s ELSE s + 1

\* Math.sqrt on a non-negative integer, rounded down.
RECURSIVE Isqrt(_)
Isqrt(n) == IF n < 2 THEN n ELSE IsqrtStep(2 * Isqrt(n \div 4), n)

\* The power series of e^y for |y| <= Scale / 2, term by term.
RECURSIVE ExpSeries(_, _, _, _)
ExpSeries(y, n, term, acc) ==
  IF term = 0 THEN acc
  ELSE LET next == DivR(term * y, n * Scale)
       IN ExpSeries(y, n + 1, next, acc + next)

\* Math.exp on a fixed-point argument: e^y = (e^(y/2))^2 brings the argument
\* into the range of the series; below e^-16 the result is 0 in this unit.
RECURSIVE Exp(_)
Exp(y) ==
  IF y < -16 * Scale THEN 0
  ELSE IF y >= -(Scale \div 2) /\ y <= Scale \div 2
       THEN ExpSeries(y, 1, Scale, Scale)
       ELSE LET h == Exp(DivR(y, 2)) IN DivR(h * h, Scale)

---------------------------------------------------------------------------
(* The external hasher: ProteinHasher.computeHash(code) -> {phash, eigenTop} *)

\* The source texts handed to the engine and what the hasher makes of each; it
\* throws on "bad".  eigenTop is of any length: shorter than the dimensionality
\* (padded), empty (all zero), longer (truncated).  Against [1] the others are at
\* similarity 0.7 (s07), 0.9 (s09), 0.95 (s095), 0.5 (s05) and below 0 (long).
Codes == {"unit", "zero", "s07", "s09", "s095", "s05", "long", "bad"}

computeHash(code) ==
  CASE code = "unit" -> [ok |-> TRUE, phash |-> "h-unit", eigenTop |-> <<1>>]
    [] code = "zero" -> [ok |-> TRUE, phash |-> "h-zero", eigenTop |-> <<>>]
    [] code = "s07"  -> [ok |-> TRUE, phash |-> "h-s07", eigenTop |-> <<7, 7, 1, 1>>]
    [] code = "s09"  -> [ok |-> TRUE, phash |-> "h-s09", eigenTop |-> <<9, 3, 3, 1>>]
    [] code = "s095" -> [ok |-> TRUE, phash |-> "h-s095", eigenTop |-> <<19, 5, 3, 2, 1>>]
    [] code = "s05"  -> [ok |-> TRUE, phash |-> "h-s05", eigenTop |-> <<1, 1, 1, 1>>]
    [] code = "long" -> [ok |-> TRUE, phash |-> "h-long",
                         eigenTop |-> <<-1, 1, 1, 1, 1, 1, 1, 1, 1, 1, 5>>]
    [] OTHER         -> [ok |-> FALSE, phash |-> "", eigenTop |-> <<>>]

\* The optional id argument: a caller's identifier, or none.
NoId == ""
CallerIds == {"a"}

---------------------------------------------------------------------------
(* Vectors and the metrics of a pair *)

\* normalizeEigenvalues: the first min(length, dimensionality) values in
\* place, zero in every other position.
normalizeEigenvalues(eigenvalues) ==
  [i \in 1..dimensionality |->
     IF i <= Min(Len(eigenvalues), dimensionality) THEN eigenvalues[i] ELSE 0]

RECURSIVE SumTo(_, _)
SumTo(f, n) == IF n = 0 THEN 0 ELSE f[n] + SumTo(f, n - 1)

\* Vector.dot
RECURSIVE DotTo(_, _, _)
DotTo(v1, v2, n) == IF n = 0 THEN 0 ELSE v1[n] * v2[n] + DotTo(v1, v2, n - 1)

Dot(v1, v2) == DotTo(v1, v2, Len(v1))

\* Vector.norm: the square root of the sum of squares.
Norm(v) == Isqrt(Dot(v, v) * Scale * Scale)

\* Vector.subtract
Subtract(v1, v2) == [i \in 1..Len(v1) |-> v1[i] - v2[i]]

euclideanDistance(v1, v2) == Norm(Subtract(v1, v2))

\* cosineSimilarity with two zero vectors taken as identical (similarity 1).
cosineSimilarityUnitOnZero(v1, v2) ==
  LET dot == Dot(v1, v2)
      norm1 == Norm(v1)
      norm2 == Norm(v2)
  IN IF norm1 = 0 /\ norm2 = 0 THEN Scale
     ELSE IF norm1 = 0 \/ norm2 = 0 THEN 0
     ELSE DivR(dot * Scale * Scale, DivR(norm1 * norm2, Scale))

\* dot / (norm1 * norm2), and 0 when a norm is 0.
Cosine(dot, norm1, norm2) ==
  IF norm1 = 0 \/ norm2 = 0 THEN 0
  ELSE DivR(dot * Scale * Scale, DivR(norm1 * norm2, Scale))

cosineSimilarity(v1, v2) == Cosine(Dot(v1, v2), Norm(v1), Norm(v2))

\* E = d^2 / s, Infinity at similarity 0.
wormholeEnergy(distance, similarity) ==
  IF similarity = 0 THEN Infinity
  ELSE Num(DivR(DivR(distance * distance, Scale) * Scale, similarity))

\* wormholeStability with its midpoint at the admission cutoff 0.7.
wormholeStabilityMidpointAtCutoff(similarity) ==
  DivR(Scale * Scale, Scale + Exp(-steepness * (similarity - admission)))

\* 1 / (1 + e^(-k (similarity - x0)))
wormholeStability(similarity) ==
  DivR(Scale * Scale, Scale + Exp(-steepness * (similarity - x0)))

\* freq2 / freq1 of one coordinate: 0/0 is NaN, x/0 is +-Infinity.
Ratio(freq2, freq1) ==
  IF freq1 = 0 THEN (IF freq2 = 0 THEN NaN ELSE Infinity)
  ELSE IF freq1 > 0 THEN Num(DivR(freq2 * Scale, freq1))
  ELSE Num(DivR(-freq2 * Scale, -freq1))

\* Math.exp(-Math.pow(ratio - harmonic, 2))
HarmonicScore(ratio, harmonic) ==
  CASE ratio.k = "NaN" -> NaN
    [] ratio.k = "inf" -> Num(0)
    [] OTHER -> Num(Exp(-DivR((ratio.v - harmonic) * (ratio.v - harmonic), Scale)))

\* Math.max: NaN if either argument is NaN.
MathMax(a, b) ==
  IF a.k = "NaN" \/ b.k = "NaN" THEN NaN ELSE Num(Max(a.v, b.v))

\* a + b on numbers that may be NaN.
Plus(a, b) == IF a.k = "NaN" \/ b.k = "NaN" THEN NaN ELSE Num(a.v + b.v)

\* The inner loop: the best score of one ratio over the harmonic ratios.
RECURSIVE MaxResonance(_, _)
MaxResonance(ratio, n) ==
  IF n = 0 THEN Num(0)
  ELSE MathMax(MaxResonance(ratio, n - 1), HarmonicScore(ratio, harmonicRatios[n]))

\* The outer loop: the sum of the best scores of the first n coordinates.
RECURSIVE ResonanceSum(_, _, _)
ResonanceSum(eigen1, eigen2, n) ==
  IF n = 0 THEN Num(0)
  ELSE Plus(ResonanceSum(eigen1, eigen2, n - 1),
            MaxResonance(Ratio(baseFreq * eigen2[n], baseFreq * eigen1[n]),
                         Len(harmonicRatios)))

harmonicResonance(eigen1, eigen2) ==
  LET n == Min(Len(eigen1), Len(eigen2))
      resonanceSum == ResonanceSum(eigen1, eigen2, n)
  IN IF resonanceSum.k = "NaN" \/ n = 0 THEN NaN
     ELSE Num(DivR(resonanceSum.v, n))

\* a >= b and a > b of JavaScript: false when a is NaN.
NumGe(a, b) == a.k = "inf" \/ (a.k = "num" /\ a.v >= b)
NumGt(a, b) == a.k = "inf" \/ (a.k = "num" /\ a.v > b)

---------------------------------------------------------------------------
(* The two Maps.  A JavaScript Map enumerates its keys in the order of their
   first insertion; set() on a present key replaces the value in place. *)

\* Map.has
Has(m, key) == \E i \in 1..Len(m) : m[i].id = key

\* Map.set, for entries that carry their key in the field id.
MapSet(m, entry) ==
  IF Has(m, entry.id)
  THEN [i \in 1..Len(m) |-> IF m[i].id = entry.id THEN entry ELSE m[i]]
  ELSE Append(m, entry)

\* this.connections.get(soulId) || []
ConnectionsOf(C, soulId) ==
  IF Has(C, soulId) THEN (CHOOSE e \in {C[i] : i \in 1..Len(C)} : e.id = soulId).list
  ELSE <<>>

\* Array.prototype.slice(0, k) for k >= 0
Slice(list, k) == SubSeq(list, 1, Min(k, Len(list)))

\* The concatenation of the lists of a sequence of lists.
RECURSIVE Flatten(_)
Flatten(ls) == IF ls = <<>> THEN <<>> ELSE Head(ls) \o Flatten(Tail(ls))

\* for (const connections of this.connections.values()) ...: every stored
\* connection, in the order of the Map and of each list.
AllConnections(C) == Flatten([i \in 1..Len(C) |-> C[i].list])

---------------------------------------------------------------------------
(* findWormholes *)

\* The loop of findWormholes without the skip of the soul itself.
EverySoul(S, soul) == S

\* for (const [otherId, otherSoul] of this.souls) { if (otherId === soul.id) continue;
OtherSouls(S, soul) ==
  LET other(o) == o.id # soul.id IN SelectSeq(S, other)

\* The admission test with >= in place of >.
AdmittedFromCutoff(similarity) == similarity >= admission

\* if (similarity > 0.7)
Admitted(similarity) == similarity > admission

\* The metrics of the pair (soul, otherSoul) and the connection made of them.
Connection(soul, otherSoul) ==
  LET distance == euclideanDistance(soul.eigenvalues, otherSoul.eigenvalues)
      similarity == cosineSimilarity(soul.eigenvalues, otherSoul.eigenvalues)
  IN [from |-> soul,
      to |-> otherSoul,
      similarity |-> similarity,
      distance |-> distance,
      energy |-> wormholeEnergy(distance, similarity),
      stability |-> wormholeStability(similarity),
      resonance |-> harmonicResonance(soul.eigenvalues, otherSoul.eigenvalues)]

\* One step of the sort: c goes behind every entry that the comparator
\* b.similarity - a.similarity does not put after it (the sort is stable).
RECURSIVE InsertBySimilarity(_, _)
InsertBySimilarity(list, c) ==
  IF list = <<>> THEN <<c>>
  ELSE IF Head(list).similarity >= c.similarity
       THEN <<Head(list)>> \o InsertBySimilarity(Tail(list), c)
       ELSE <<c>> \o list

\* The sort with the comparator a.similarity - b.similarity.
RECURSIVE InsertAscending(_, _)
InsertAscending(list, c) ==
  IF list = <<>> THEN <<c>>
  ELSE IF Head(list).similarity <= c.similarity
       THEN <<Head(list)>> \o InsertAscending(Tail(list), c)
       ELSE <<c>> \o list

RECURSIVE SortAscending(_)
SortAscending(list) ==
  IF list = <<>> THEN <<>>
  ELSE InsertAscending(SortAscending(SubSeq(list, 1, Len(list) - 1)), list[Len(list)])

\* connections.sort((a, b) => b.similarity - a.similarity)
RECURSIVE SortBySimilarity(_)
SortBySimilarity(list) ==
  IF list = <<>> THEN <<>>
  ELSE InsertBySimilarity(SortBySimilarity(SubSeq(list, 1, Len(list) - 1)),
                          list[Len(list)])

\* The list findWormholes builds for soul over the corpus S.  The code computes
\* the five metrics of every pair and drops those of a pair it does not admit;
\* here the metrics of a dropped pair are not built.
findWormholes(soul, S) ==
  LET admit(o) == Admitted(cosineSimilarity(soul.eigenvalues, o.eigenvalues))
      admitted == SelectSeq(OtherSouls(S, soul), admit)
  IN SortBySimilarity([i \in 1..Len(admitted) |-> Connection(soul, admitted[i])])

\* The reverse of a connection: the same pair seen from the other soul.
Reverse(c) == Connection(c.to, c.from)

\* An undirected index: every connection of list also goes, reversed, into the
\* list of the soul it leads to.
RECURSIVE AddReverse(_, _)
AddReverse(C, list) ==
  IF list = <<>> THEN C
  ELSE LET c == Head(list)
           back == Append(ConnectionsOf(C, c.to.id), Reverse(c))
       IN AddReverse(MapSet(C, [id |-> c.to.id, list |-> SortBySimilarity(back)]),
                     Tail(list))

SetConnectionsBothWays(C, id, list) ==
  AddReverse(MapSet(C, [id |-> id, list |-> list]), list)

\* this.connections.set(soul.id, connections)
SetConnections(C, id, list) == MapSet(C, [id |-> id, list |-> list])

---------------------------------------------------------------------------
(* The engine *)

\* No call is in progress and no returned value is waiting for the caller.
Idle == [op |-> "idle"]

\* constructor: both Maps empty.
Init ==
  /\ souls = <<>>
  /\ connections = <<>>
  /\ clock = 0
  /\ result = Idle
  /\ collided = FALSE

\* The soul addCodeSoul builds from a hash result.  vector is
\* new Vector(eigenvalues): the same numbers, kept once.  source is not given.
\* timestamp is the number of souls stored before: it tells the soul objects
\* apart as new Date() and the identity of the object do.
Soul(code, id, r) ==
  [id |-> IF id # NoId THEN id ELSE r.phash,
   code |-> code,
   hash |-> r.phash,
   eigenvalues |-> normalizeEigenvalues(r.eigenTop),
   timestamp |-> clock]

\* addCodeSoul with the soul stored before the hash result is looked at.
addCodeSoulStoringFirst(code, id) ==
  LET r == computeHash(code)
      soul == Soul(code, id, [r EXCEPT !.phash = IF r.ok THEN r.phash ELSE "pending"])
      S == MapSet(souls, soul)
  IN /\ result = Idle
     /\ clock < MaxInserts
     /\ souls' = S
     /\ collided' = (collided \/ Has(souls, soul.id))
     /\ clock' = clock + 1
     /\ IF r.ok
        THEN /\ connections' = SetConnections(connections, soul.id, findWormholes(soul, S))
             /\ result' = [op |-> "addCodeSoul", code |-> code, ok |-> TRUE, value |-> soul]
        ELSE /\ connections' = connections
             /\ result' = [op |-> "addCodeSoul", code |-> code, ok |-> FALSE]

\* async addCodeSoul(code, id?, source?): computeHash first, which may throw
\* (the call is then rejected: ok is FALSE); then the soul is stored and its
\* wormholes are found and stored, and the soul is returned.
addCodeSoul(code, id) ==
  LET r == computeHash(code)
      soul == Soul(code, id, r)
      S == MapSet(souls, soul)
  IN /\ result = Idle
     /\ clock < MaxInserts
     /\ IF r.ok
        THEN /\ souls' = S
             /\ connections' = SetConnections(connections, soul.id, findWormholes(soul, S))
             /\ clock' = clock + 1
             /\ collided' = (collided \/ Has(souls, soul.id))
             /\ result' = [op |-> "addCodeSoul", code |-> code, ok |-> TRUE, value |-> soul]
        ELSE /\ result' = [op |-> "addCodeSoul", code |-> code, ok |-> FALSE]
             /\ UNCHANGED <<souls, connections, clock, collided>>

AddCodeSoul ==
  \E code \in Codes, id \in CallerIds \cup {NoId} : addCodeSoul(code, id)

---------------------------------------------------------------------------
(* The queries *)

SoulIds == {souls[i].id : i \in 1..Len(souls)}

\* An identifier no soul was ever stored under.
Nobody == "nobody"

\* The thresholds the queries are called with: the defaults and one other.
StabilityThresholds == {x0, Scale \div 2}
ResonanceThresholds == {admission, Scale}

\* getNearestNeighbors(soulId, k): (this.connections.get(soulId) || []).slice(0, k)
nearestNeighbors(C, soulId, k) == Slice(ConnectionsOf(C, soulId), k)

\* getStableWormholes(minStability): c.stability >= minStability
stableWormholes(C, minStability) ==
  LET stable(c) == c.stability >= minStability IN SelectSeq(AllConnections(C), stable)

\* getResonantPairs(minResonance): c.resonance >= minResonance
resonantPairs(C, minResonance) ==
  LET resonant(c) == NumGe(c.resonance, minResonance)
  IN SelectSeq(AllConnections(C), resonant)

RECURSIVE MaxSimilarity(_)
MaxSimilarity(list) ==
  IF list = <<>> THEN 0 ELSE Max(MaxSimilarity(Tail(list)), Head(list).similarity)

\* getMultiverseStats()
multiverseStats(S, C) ==
  LET all == AllConnections(C)
      totalSouls == Len(S)
      totalConnections == Len(all)
      sum == SumTo([i \in 1..Len(all) |-> all[i].similarity], Len(all))
      stable(c) == c.stability > x0
      resonant(c) == NumGt(c.resonance, admission)
  IN [totalSouls |-> totalSouls,
      totalWormholes |-> totalConnections,
      averageSimilarity |-> IF totalConnections > 0 THEN DivR(sum, totalConnections) ELSE 0,
      maxSimilarity |-> MaxSimilarity(all),
      stableWormholes |-> Len(SelectSeq(all, stable)),
      resonantPairs |-> Len(SelectSeq(all, resonant)),
      connectionDensity |->
        DivR(totalConnections * Scale,
             Max(1, (totalSouls * (totalSouls - 1)) \div 2))]

\* The edges exportNetwork makes of one entry of the connection Map.
Edges(entry) ==
  [i \in 1..Len(entry.list) |->
     [source |-> entry.id,
      target |-> entry.list[i].to.id,
      similarity |-> entry.list[i].similarity,
      distance |-> entry.list[i].distance,
      energy |-> entry.list[i].energy,
      stability |-> entry.list[i].stability,
      resonance |-> entry.list[i].resonance]]

\* exportNetwork()
network(S, C) ==
  [nodes |-> [i \in 1..Len(S) |->
                [id |-> S[i].id, hash |-> S[i].hash, eigenvalues |-> S[i].eigenvalues]],
   edges |-> Flatten([i \in 1..Len(C) |-> Edges(C[i])])]

\* getNearestNeighbors with splice(0, k) in place of slice(0, k).
GetNearestNeighborsSplicing(soulId, k) ==
  /\ result = Idle
  /\ result' = [op |-> "getNearestNeighbors", soulId |-> soulId, k |-> k,
                value |-> nearestNeighbors(connections, soulId, k)]
  /\ connections' =
       [i \in 1..Len(connections) |->
          IF connections[i].id = soulId
          THEN [connections[i] EXCEPT
                  !.list = SubSeq(@, Min(k, Len(@)) + 1, Len(@))]
          ELSE connections[i]]
  /\ UNCHANGED <<souls, clock, collided>>

GetNearestNeighbors(soulId, k) ==
  /\ result = Idle
  /\ result' = [op |-> "getNearestNeighbors", soulId |-> soulId, k |-> k,
                value |-> nearestNeighbors(connections, soulId, k)]
  /\ UNCHANGED <<souls, connections, clock, collided>>

GetStableWormholes(minStability) ==
  /\ result = Idle
  /\ result' = [op |-> "getStableWormholes", minStability |-> minStability,
                value |-> stableWormholes(connections, minStability)]
  /\ UNCHANGED <<souls, connections, clock, collided>>

GetResonantPairs(minResonance) ==
  /\ result = Idle
  /\ result' = [op |-> "getResonantPairs", minResonance |-> minResonance,
                value |-> resonantPairs(connections, minResonance)]
  /\ UNCHANGED <<souls, connections, clock, collided>>

GetMultiverseStats ==
  /\ result = Idle
  /\ result' = [op |-> "getMultiverseStats", value |-> multiverseStats(souls, connections)]
  /\ UNCHANGED <<souls, connections, clock, collided>>

ExportNetwork ==
  /\ result = Idle
  /\ result' = [op |-> "exportNetwork", value |-> network(souls, connections)]
  /\ UNCHANGED <<souls, connections, clock, collided>>

NearestNeighborsQuery ==
  \E soulId \in SoulIds \cup {Nobody}, k \in 0..MaxK : GetNearestNeighbors(soulId, k)

StableWormholesQuery == \E t \in StabilityThresholds : GetStableWormholes(t)

ResonantPairsQuery == \E t \in ResonanceThresholds : GetResonantPairs(t)

\* The call returns: the caller takes the value.  The engine is called from one
\* thread and every call runs to completion before the next.
Return ==
  /\ result # Idle
  /\ result' = Idle
  /\ UNCHANGED <<souls, connections, clock, collided>>

Next ==
  \/ AddCodeSoul
  \/ NearestNeighborsQuery
  \/ StableWormholesQuery
  \/ ResonantPairsQuery
  \/ GetMultiverseStats
  \/ ExportNetwork
  \/ Return

Spec == Init /\ [][Next]_vars

---------------------------------------------------------------------------
(* Properties *)

Stored == AllConnections(connections)

InSeq(x, list) == \E i \in 1..Len(list) : list[i] = x

Range(list) == {list[i] : i \in 1..Len(list)}

IsZero(v) == \A i \in 1..Len(v) : v[i] = 0

\* The place of an identifier in the enumeration of the corpus.
PlaceOf(id) == CHOOSE i \in 1..Len(souls) : souls[i].id = id

\* C1: every stored connection has similarity strictly above 0.7, as stored in
\* every state and as computed again from its two souls when an insert returns
\* (no other step writes the index); a pair at 0.7 or below is not stored.
C1_SimilarityAboveCutoff ==
  /\ \A c \in Range(Stored) : c.similarity > admission
  /\ result.op = "addCodeSoul" =>
       \A c \in Range(Stored) :
         cosineSimilarity(c.from.eigenvalues, c.to.eigenvalues) > admission

\* Two souls at similarity exactly 0.7 are in the corpus, under two identifiers,
\* and the later one of them has stored other connections but none to the first.
C1_Witness ==
  \E i, j \in 1..Len(souls) :
    /\ i < j
    /\ souls[i].timestamp < souls[j].timestamp
    /\ cosineSimilarity(souls[i].eigenvalues, souls[j].eigenvalues) = admission
    /\ ConnectionsOf(connections, souls[j].id) # <<>>
    /\ \A c \in Range(Stored) : ~(c.from = souls[j] /\ c.to = souls[i])

\* The same connection: the same two souls (identifier, code, fingerprint and
\* vector; the time of creation is left out) and the same five metrics.
SameConnection(c, d) ==
  /\ [c.from EXCEPT !.timestamp = 0] = [d.from EXCEPT !.timestamp = 0]
  /\ [c.to EXCEPT !.timestamp = 0] = [d.to EXCEPT !.timestamp = 0]
  /\ <<c.similarity, c.distance, c.energy, c.stability, c.resonance>>
       = <<d.similarity, d.distance, d.energy, d.stability, d.resonance>>

\* C2: no connection is ever removed or recomputed: a connection in the
\* connection index is still in it, under the same identifier, with the same
\* from-soul, to-soul and metrics, after every step.
C2_ConnectionsNeverRemoved ==
  [][\A i \in 1..Len(connections) :
       \A j \in 1..Len(connections[i].list) :
         \E n \in 1..Len(ConnectionsOf(connections', connections[i].id)) :
           SameConnection(connections[i].list[j],
                          ConnectionsOf(connections', connections[i].id)[n])]_vars

\* C3: an insert under an identifier leaves the list of every other identifier
\* as it was; and after the insert of A and then of B, with A's non-zero vector,
\* under another identifier, A's list is empty and B's list is one entry, to A.
C3_Directional ==
  /\ [][(result'.op = "addCodeSoul" /\ result'.ok) =>
          \A i \in 1..Len(connections) :
            connections[i].id # result'.value.id => connections'[i] = connections[i]]_vars
  /\ [](( /\ clock = 2
          /\ Len(souls) = 2
          /\ souls[1].eigenvalues = souls[2].eigenvalues
          /\ ~IsZero(souls[1].eigenvalues))
        => /\ ConnectionsOf(connections, souls[1].id) = <<>>
           /\ Len(ConnectionsOf(connections, souls[2].id)) = 1
           /\ ConnectionsOf(connections, souls[2].id)[1].to = souls[1]
           /\ ConnectionsOf(connections, souls[2].id)[1].from = souls[2])

\* A, then an identical B under another identifier, then a third soul that is
\* connected to both: A's list is still empty.
C3_Witness ==
  /\ Len(souls) = 3
  /\ souls[1].eigenvalues = souls[2].eigenvalues
  /\ ConnectionsOf(connections, souls[1].id) = <<>>
  /\ Len(ConnectionsOf(connections, souls[2].id)) = 1
  /\ Len(ConnectionsOf(connections, souls[3].id)) = 2
  /\ result.op = "addCodeSoul"

\* C4: an insert whose fingerprint fails is rejected and leaves the corpus and
\* the connection index exactly as they were.
C4_FailedInsertChangesNothing ==
  [][(result'.op = "addCodeSoul" /\ ~computeHash(result'.code).ok) =>
       (~result'.ok /\ souls' = souls /\ connections' = connections)]_vars

\* A failed insert into a corpus that holds souls and connections.
C4_Witness ==
  /\ result.op = "addCodeSoul"
  /\ ~result.ok
  /\ Len(souls) >= 2
  /\ Stored # <<>>

\* C5, as stated: stableConnections(0.8) returns the connections of similarity
\* 0.9 and 0.95.
C5_ReturnsBothPairs ==
  (result.op = "getStableWormholes" /\ result.minStability = x0) =>
    \A c \in Range(Stored) :
      c.similarity \in {(9 * Scale) \div 10, (95 * Scale) \div 100}
        => InSeq(c, result.value)

\* C5, amended: stableConnections(0.8) returns the stored connections of
\* stability >= 0.8 and no other: one of similarity 0.95 is returned, one of
\* similarity 0.9 is stored and not returned, and none of similarity 0.5 is stored.
C5_ReturnsOnlyStable ==
  (result.op = "getStableWormholes" /\ result.minStability = x0) =>
    /\ Range(result.value) \subseteq Range(Stored)
    /\ \A c \in Range(Stored) :
         /\ InSeq(c, result.value) <=> c.stability >= x0
         /\ c.similarity = (95 * Scale) \div 100 => InSeq(c, result.value)
         /\ c.similarity = (9 * Scale) \div 10 => ~InSeq(c, result.value)
         /\ c.similarity # Scale \div 2

\* Connections of similarity 0.9 and 0.95 are stored and stableConnections(0.8)
\* has returned the second and not the first.
C5_Witness ==
  /\ result.op = "getStableWormholes"
  /\ result.minStability = x0
  /\ \E c, d \in Range(Stored) :
       /\ c.similarity = (9 * Scale) \div 10
       /\ d.similarity = (95 * Scale) \div 100
       /\ ~InSeq(c, result.value)
       /\ InSeq(d, result.value)

\* C6: the resonance of every stored connection is a finite number in [0,1].
C6_ResonanceFinite ==
  \A c \in Range(Stored) :
    /\ c.resonance.k = "num"
    /\ c.resonance.v >= 0
    /\ c.resonance.v <= Scale

\* C7: every stored list is in non-increasing order of similarity, entries of
\* equal similarity in the order of the corpus; nearestNeighbors(id, k) is the
\* first min(k, n) entries of id's list, and empty for an identifier that is
\* unknown or has no connections.
C7_NearestNeighbors ==
  /\ \A e \in 1..Len(connections) :
       \A i, j \in 1..Len(connections[e].list) :
         i < j =>
           LET a == connections[e].list[i]
               b == connections[e].list[j]
           IN /\ a.similarity >= b.similarity
              /\ a.similarity = b.similarity => PlaceOf(a.to.id) < PlaceOf(b.to.id)
  /\ result.op = "getNearestNeighbors" =>
       LET list == ConnectionsOf(connections, result.soulId)
       IN /\ Len(result.value) = Min(result.k, Len(list))
          /\ \A i \in 1..Len(result.value) : result.value[i] = list[i]
          /\ (result.soulId \notin SoulIds \/ list = <<>>) => result.value = <<>>

\* nearestNeighbors(id, 1) on a list of two entries that the sort has put in
\* the other order than the corpus has them.
C7_Witness ==
  /\ result.op = "getNearestNeighbors"
  /\ result.k = 1
  /\ LET list == ConnectionsOf(connections, result.soulId)
     IN /\ Len(list) = 2
        /\ list[1].similarity > list[2].similarity
        /\ PlaceOf(list[1].to.id) > PlaceOf(list[2].to.id)
        /\ result.value = <<list[1]>>

\* C8: a soul whose vector is all zero is at neither end of a stored
\* connection, and when an insert returns the similarity of every all-zero soul
\* of the corpus to every soul of the corpus is 0.
C8_ZeroVectorUnconnected ==
  /\ \A c \in Range(Stored) :
       ~IsZero(c.from.eigenvalues) /\ ~IsZero(c.to.eigenvalues)
  /\ \A i, j \in 1..Len(souls) :
       (result.op = "addCodeSoul" /\ IsZero(souls[i].eigenvalues)) =>
         /\ cosineSimilarity(souls[i].eigenvalues, souls[j].eigenvalues) = 0
         /\ cosineSimilarity(souls[j].eigenvalues, souls[i].eigenvalues) = 0

\* An all-zero soul in the corpus, added after one soul and before another,
\* and those two connected.
C8_Witness ==
  \E i, m, n \in 1..Len(souls) :
    /\ IsZero(souls[i].eigenvalues)
    /\ souls[m].timestamp < souls[i].timestamp
    /\ souls[i].timestamp < souls[n].timestamp
    /\ \E c \in Range(Stored) : c.from = souls[n] /\ c.to = souls[m]

\* C9: the five queries leave the corpus and the connection index as they
\* were, and the value a query has returned is the value the same query returns
\* when called again.
C9_QueriesReadOnly ==
  /\ [][result'.op \in {"getNearestNeighbors", "getStableWormholes", "getResonantPairs",
                        "getMultiverseStats", "exportNetwork"}
          => (souls' = souls /\ connections' = connections)]_vars
  /\ [](/\ result.op = "getMultiverseStats" =>
             result.value = multiverseStats(souls, connections)
        /\ result.op = "exportNetwork" =>
             result.value = network(souls, connections)
        /\ result.op = "getNearestNeighbors" =>
             result.value = nearestNeighbors(connections, result.soulId, result.k)
        /\ result.op = "getStableWormholes" =>
             result.value = stableWormholes(connections, result.minStability)
        /\ result.op = "getResonantPairs" =>
             result.value = resonantPairs(connections, result.minResonance))

\* stats() has returned on a corpus that holds connections.
C9_Witness ==
  /\ result.op = "getMultiverseStats"
  /\ result.value.totalSouls = 3
  /\ result.value.totalWormholes >= 2

\* C10: while no insert has reused an identifier, no connection joins a soul to
\* itself, no two connections join the same two souls, and stats() has
\* totalWormholes <= totalSouls (totalSouls - 1) / 2 and connectionDensity <= 1.
C10_AtMostOnePerPair ==
  ~collided =>
    /\ \A c \in Range(Stored) : c.from.id # c.to.id
    /\ LET all == Stored
       IN \A i, j \in 1..Len(all) :
            i # j => {all[i].from.id, all[i].to.id} # {all[j].from.id, all[j].to.id}
    /\ LET stats == multiverseStats(souls, connections)
       IN /\ 2 * stats.totalWormholes <= stats.totalSouls * (stats.totalSouls - 1)
          /\ stats.connectionDensity <= Scale

\* Three souls under three identifiers, every pair of them connected.
C10_Witness ==
  /\ ~collided
  /\ Len(souls) = 3
  /\ Len(Stored) = 3

====
